---------------------------- MODULE Spec2Model ----------------------------
(***************************************************************************)
(* A model of the Bw-Tree of crates/bwetree (tree.rs, page.rs,             *)
(* mapping_table.rs, delta.rs, recovery.rs): the mapping table, the pages  *)
(* with their delta chains, the suspended-request queue, and the threads   *)
(* that call insert, delete and range_query.  Every step of a thread is    *)
(* one acquisition of a lock (or one access made under a lock that is      *)
(* taken and released inside a single call), so that the interleavings of  *)
(* the model are those of the threads of the program.                      *)
(***************************************************************************)
EXTENDS Integers, Sequences, FiniteSets, TLC

VARIABLES
    table,              \* MappingTable.table: PageID -> flags of the entry
    pages,              \* the Page behind each entry (MappingTableEntry.page)
    chainLock,          \* holder of Page.delta_chain's mutex, per page
    poisoned,           \* whether Page.delta_chain's mutex is poisoned
    root_page_id,       \* BweTree.root_page_id
    next_page_id,       \* BweTree.next_page_id
    suspended_requests, \* BweTree.suspended_requests: PageID -> queue
    pc,                 \* where each thread stands
    op,                 \* the call a thread is running, with its arguments
    cur,                \* current_page_id of the traversal, then the page visited
    parents,            \* the parent path collected by the traversal
    results,            \* range_query's result vector
    rounds,             \* iterations of the loop of insert/delete begun by the call
    ops,                \* number of calls started so far
    lastWrite,          \* history: the newest published write of each key
    pending_requests,   \* ConcurrencyManager.pending_requests: PageID -> queue
    notified,           \* the requests whose condvar got notify_one, in order
    file,               \* StorageManager.file: the fragments written, in order
    next_block_number,  \* StorageManager.next_block_number
    issued,             \* the fragments written and the locations returned
    fetched             \* the last read_page_fragment: its location and result

\* the state of the standalone components of src/src/bwetree
managerVars == <<pending_requests, notified, file, next_block_number, issued,
                 fetched>>

vars == <<table, pages, chainLock, poisoned, root_page_id, next_page_id,
          suspended_requests, pc, op, cur, parents, results, rounds, ops,
          lastWrite, managerVars>>

-----------------------------------------------------------------------------
(* Bounds of the model.                                                    *)

\* Calls started in one behaviour.
MaxOps == 3

\* Longest delta chain the model follows (delete's retry loop grows the chain
\* without bound).
MaxChain == 3

Threads == {"t1", "t2"}
NoThread == "none"

-----------------------------------------------------------------------------
(* Types (types.rs).  Key is i64; only the order of keys matters, so       *)
(* Key::MIN and Key::MAX are scaled to the ends of a small interval.        *)

KeyMIN == -1
KeyMAX == 3

\* std::mem::size_of_val(k) for k: i64
KeySize == 8

\* The keys the callers pass; Key::MAX is a Key like any other.
Keys == {1, KeyMAX}

\* Values are byte vectors; a value is <<tag, length>>: the tag tells two
\* vectors apart, the length is v.len().
Values == {<<1, 6>>, <<2, 1016>>, <<3, 4089>>}
ValueLen(v) == v[2]

LSNs == {0}

\* Option<T>: None is <<>>, Some(x) is <<x>>.
None == <<>>
Some(x) == <<x>>

-----------------------------------------------------------------------------
(* Page (page.rs) and the delta nodes (delta.rs).  A delta chain is the     *)
(* sequence of its nodes, newest first: the head of the sequence is the     *)
(* chain head and each node's `next` is the node after it.                  *)

\* a page whose sibling link names the next, never registered, PageID
NewPageDangling(page_id, node_type, low_key, high_key) ==
    [ page_id       |-> page_id,
      node_type     |-> node_type,
      low_key       |-> low_key,
      high_key      |-> high_key,
      delta_chain   |-> <<>>,
      index_entries |-> <<>>,
      base_data     |-> <<>>,
      right_sibling |-> Some(page_id + 1) ]

\* a page whose sibling link names the page itself
NewPageSelfLinked(page_id, node_type, low_key, high_key) ==
    [ page_id       |-> page_id,
      node_type     |-> node_type,
      low_key       |-> low_key,
      high_key      |-> high_key,
      delta_chain   |-> <<>>,
      index_entries |-> <<>>,
      base_data     |-> <<>>,
      right_sibling |-> Some(page_id) ]

\* Page::new
NewPage(page_id, node_type, low_key, high_key) ==
    [ page_id       |-> page_id,
      node_type     |-> node_type,
      low_key       |-> low_key,
      high_key      |-> high_key,
      delta_chain   |-> <<>>,
      index_entries |-> <<>>,
      base_data     |-> <<>>,
      right_sibling |-> None ]

\* an entry that starts out claimed by an SMO
NewEntryUnderSmo == [ pending_alloc |-> FALSE, pending_dealloc |-> FALSE, under_smo |-> TRUE ]

\* MappingTableEntry as BweTree::new builds it for the root
NewEntry == [ pending_alloc |-> FALSE, pending_dealloc |-> FALSE, under_smo |-> FALSE ]

DataDelta(lsn, key, value) ==
    [ type |-> "DataDelta", lsn |-> lsn, key |-> key, value |-> value ]

DeleteDelta(lsn, key) ==
    [ type |-> "DeleteDelta", lsn |-> lsn, key |-> key ]

\* an append that writes over a head it read before another writer's append:
\* the node that was the head is lost
AddDeltaStaleHead(page, delta) ==
    [ page EXCEPT !.delta_chain = IF @ = <<>> THEN <<delta>>
                                  ELSE <<delta>> \o Tail(@) ]

\* the append block of insert/delete and Page::add_delta: the new node becomes
\* the head and its next is the previous head
AddDelta(page, delta) ==
    [ page EXCEPT !.delta_chain = <<delta>> \o @ ]

\* Vec::sort_by(|a, b| a.0.cmp(&b.0)): a stable sort on the first component
RECURSIVE SortByKey(_)
InsertSorted(sorted, x) ==
    LET n == Cardinality({ i \in 1..Len(sorted) : sorted[i][1] <= x[1] })
    IN  SubSeq(sorted, 1, n) \o <<x>> \o SubSeq(sorted, n + 1, Len(sorted))
SortByKey(s) ==
    IF s = <<>> THEN <<>>
    ELSE InsertSorted(SortByKey(SubSeq(s, 1, Len(s) - 1)), s[Len(s)])

-----------------------------------------------------------------------------
(* Consolidation (tree.rs, consolidate_page).                              *)

\* one arm of the match of consolidate_page's walk
ApplyDelta(st, d) ==
    CASE d.type = "DataDelta" ->
            IF st.node_type = "Leaf"
            THEN [ st EXCEPT !.records = Append(@, <<d.key, d.value>>) ]
            ELSE st
      [] d.type = "DeleteDelta" ->
            IF st.node_type = "Leaf"
            THEN [ st EXCEPT !.records = SelectSeq(@, LAMBDA r : r[1] # d.key) ]
            ELSE st
      [] d.type = "IndexDelta" ->
            IF st.node_type = "Internal"
            THEN [ st EXCEPT !.index_entries = @ \o d.index_entries ]
            ELSE st
      [] d.type = "SplitDelta" ->
            [ st EXCEPT !.high_key = d.split_key,
                        !.right_sibling = Some(d.right_page_id) ]
      [] d.type = "MergeDelta" ->
            [ st EXCEPT !.low_key = d.merge_key ]
      [] OTHER -> st

\* the while-let loop of consolidate_page: newest node first
RECURSIVE WalkChain(_, _)
WalkChain(st, chain) ==
    IF chain = <<>> THEN st
    ELSE WalkChain(ApplyDelta(st, Head(chain)), Tail(chain))

\* BweTree::consolidate_page: the PageState of a page
consolidate_page(page) ==
    LET st0 == [ node_type     |-> page.node_type,
                 low_key       |-> page.low_key,
                 high_key      |-> page.high_key,
                 records       |-> IF page.node_type = "Leaf"
                                   THEN page.base_data ELSE <<>>,
                 index_entries |-> IF page.node_type = "Leaf"
                                   THEN <<>> ELSE page.index_entries,
                 right_sibling |-> page.right_sibling ]
        st1 == WalkChain(st0, page.delta_chain)
    IN  IF st1.node_type = "Leaf"
        THEN [ st1 EXCEPT !.records = SortByKey(@) ]
        ELSE [ st1 EXCEPT !.index_entries = SortByKey(@) ]

\* BweTree::find_child_in_internal_node: Option<PageID>
find_child_in_internal_node(page_state, key) ==
    LET es == page_state.index_entries
        hit == { i \in 1..Len(es) : key < es[i][1] }
    IN  IF hit # {}
        THEN Some(es[CHOOSE i \in hit : \A j \in hit : i <= j][2])
        ELSE IF es = <<>> THEN None ELSE Some(es[Len(es)][2])

-----------------------------------------------------------------------------
(* The SMO triggers (tree.rs).                                             *)

RECURSIVE SumSizes(_)
SumSizes(records) ==
    IF records = <<>> THEN 0
    ELSE KeySize + ValueLen(Head(records)[2]) + SumSizes(Tail(records))

\* size_of::<Key>() + size_of::<PageID>() on a 64-bit target
IndexEntrySize == KeySize + 8

\* BweTree::calculate_logical_size
calculate_logical_size(page) ==
    LET page_state == consolidate_page(page)
    IN  IF page_state.node_type = "Leaf"
        THEN SumSizes(page_state.records)
        ELSE Len(page_state.index_entries) * IndexEntrySize

\* BweTree::smo_threshold
smo_threshold == 4 * 1024

\* BweTree::merge_threshold
merge_threshold == smo_threshold \div 4

\* BweTree::can_split
can_split(page) ==
    calculate_logical_size(page) \div 2 >= smo_threshold \div 4

\* the first conjunct of BweTree::need_split
over_threshold(page) ==
    calculate_logical_size(page) > smo_threshold

\* BweTree::need_merge
need_merge(page) ==
    calculate_logical_size(page) < merge_threshold

\* BweTree::find_left_sibling: the placeholder returns None for every page
find_left_sibling(page) == None

\* MappingTable::is_under_smo: false for a page id that has no entry
is_under_smo(page_id) ==
    IF page_id \in DOMAIN table THEN table[page_id].under_smo ELSE FALSE

-----------------------------------------------------------------------------
(* The state after BweTree::new.                                           *)

NoOp == [ type |-> "none", key |-> 0, value |-> <<0, 0>>, lsn |-> 0, end_key |-> 0 ]

\* history of a key: whether an insert / a delete of it was ever published,
\* its newest published write (live: an insert, with that value), how many
\* insert calls named it and the value of the newest such call
NeverWritten ==
    [ inserted |-> FALSE, deleted |-> FALSE, live |-> FALSE, value |-> <<0, 0>>,
      calls |-> 0, asked |-> <<0, 0>> ]

\* ConcurrencyManager::new and StorageManager::new on a new file
ManagersNew ==
    /\ pending_requests = <<>>
    /\ notified = <<>>
    /\ file = <<>>
    /\ next_block_number = 0
    /\ issued = <<>>
    /\ fetched = <<>>

\* a constructor that points root_page_id at an id it did not register
InitRootUnregistered ==
    /\ table = [ id \in {0} |-> NewEntry ]
    /\ pages = [ id \in {0} |-> NewPage(0, "Leaf", KeyMIN, KeyMAX) ]
    /\ chainLock = [ id \in {0} |-> NoThread ]
    /\ poisoned = [ id \in {0} |-> FALSE ]
    /\ root_page_id = 1
    /\ next_page_id = 1
    /\ suspended_requests = [ id \in {0} |-> <<>> ]
    /\ pc = [ t \in Threads |-> "idle" ]
    /\ op = [ t \in Threads |-> NoOp ]
    /\ cur = [ t \in Threads |-> 0 ]
    /\ parents = [ t \in Threads |-> <<>> ]
    /\ results = [ t \in Threads |-> <<>> ]
    /\ rounds = [ t \in Threads |-> 0 ]
    /\ ops = 0
    /\ ManagersNew
    /\ lastWrite = [ k \in Keys |-> NeverWritten ]

\* BweTree::new: the root is page 0, a Leaf over [Key::MIN, Key::MAX); the
\* allocator starts at 1
Init ==
    /\ table = [ id \in {0} |-> NewEntry ]
    /\ pages = [ id \in {0} |-> NewPage(0, "Leaf", KeyMIN, KeyMAX) ]
    /\ chainLock = [ id \in {0} |-> NoThread ]
    /\ poisoned = [ id \in {0} |-> FALSE ]
    /\ root_page_id = 0
    /\ next_page_id = 1
    /\ suspended_requests = [ id \in {0} |-> <<>> ]
    /\ pc = [ t \in Threads |-> "idle" ]
    /\ op = [ t \in Threads |-> NoOp ]
    /\ cur = [ t \in Threads |-> 0 ]
    /\ parents = [ t \in Threads |-> <<>> ]
    /\ results = [ t \in Threads |-> <<>> ]
    /\ rounds = [ t \in Threads |-> 0 ]
    /\ ops = 0
    /\ ManagersNew
    /\ lastWrite = [ k \in Keys |-> NeverWritten ]

-----------------------------------------------------------------------------
(* Helpers of the steps.                                                   *)

treeVars == <<table, pages, chainLock, poisoned, root_page_id, next_page_id,
              suspended_requests>>

\* Mutex::lock on Page.delta_chain returns only when no thread holds it
CanLock(page_id) == chainLock[page_id] = NoThread

Goto(t, label) == pc' = [ pc EXCEPT ![t] = label ]

\* the call returns to its caller: the thread is free for its next call
Return(t) ==
    /\ pc' = [ pc EXCEPT ![t] = "idle" ]
    /\ op' = [ op EXCEPT ![t] = NoOp ]
    /\ cur' = [ cur EXCEPT ![t] = 0 ]
    /\ parents' = [ parents EXCEPT ![t] = <<>> ]
    /\ results' = [ results EXCEPT ![t] = <<>> ]
    /\ rounds' = [ rounds EXCEPT ![t] = 0 ]

\* lock().unwrap() on a poisoned mutex, or unwrap() of None: the thread panics
\* and runs no further step
Panic(t) ==
    /\ pc' = [ pc EXCEPT ![t] = "panicked" ]
    /\ UNCHANGED <<op, cur, parents, results, rounds>>

\* the head of the loop of insert/delete: find_leaf_page_with_parents reads
\* root_page_id and starts its walk there
LoopHead(t) ==
    /\ pc' = [ pc EXCEPT ![t] = "find" ]
    /\ cur' = [ cur EXCEPT ![t] = root_page_id ]
    /\ parents' = [ parents EXCEPT ![t] = <<>> ]
    /\ rounds' = [ rounds EXCEPT ![t] = @ + 1 ]
    /\ UNCHANGED <<op, results>>

\* MappingTable::set_under_smo / clear_under_smo: nothing for a missing entry
WithUnderSmo(page_id, flag) ==
    IF page_id \in DOMAIN table
    THEN [ table EXCEPT ![page_id].under_smo = flag ]
    ELSE table

\* a filter that forgets the upper end of the range
CollectFromStart(records, start_key, end_key) ==
    SelectSeq(records, LAMBDA r : r[1] >= start_key)

\* a filter that leaves out the lower end of the range
CollectAboveStart(records, start_key, end_key) ==
    SelectSeq(records, LAMBDA r : r[1] > start_key /\ r[1] <= end_key)

\* the records of a page state that range_query keeps
CollectInRange(records, start_key, end_key) ==
    SelectSeq(records, LAMBDA r : r[1] >= start_key /\ r[1] <= end_key)

\* the body of range_query's loop on one page: the records kept, and the
\* page the loop moves to (None: break)
ScanPage(page, start_key, end_key) ==
    LET page_state == consolidate_page(page)
    IN  [ found |-> CollectInRange(page_state.records, start_key, end_key),
          next  |-> IF page_state.right_sibling # None /\ start_key <= end_key
                    THEN page_state.right_sibling ELSE None ]

-----------------------------------------------------------------------------
(* The calls.                                                              *)

\* a thread calls insert(key, value, lsn)
StartInsert(t) ==
    /\ pc[t] = "idle"
    /\ ops < MaxOps
    /\ \E k \in Keys, v \in Values, l \in LSNs :
          /\ op' = [ op EXCEPT ![t] = [ type |-> "insert", key |-> k, value |-> v,
                                        lsn |-> l, end_key |-> k ] ]
          /\ lastWrite' = [ lastWrite EXCEPT ![k].calls = @ + 1, ![k].asked = v ]
    /\ pc' = [ pc EXCEPT ![t] = "find" ]
    /\ cur' = [ cur EXCEPT ![t] = root_page_id ]
    /\ ops' = ops + 1
    /\ UNCHANGED managerVars
    /\ UNCHANGED <<treeVars, parents, results, rounds>>

\* a thread calls delete(key, lsn)
StartDelete(t) ==
    /\ pc[t] = "idle"
    /\ ops < MaxOps
    /\ \E k \in Keys, l \in LSNs :
          op' = [ op EXCEPT ![t] = [ type |-> "delete", key |-> k, value |-> <<0, 0>>,
                                     lsn |-> l, end_key |-> k ] ]
    /\ pc' = [ pc EXCEPT ![t] = "find" ]
    /\ cur' = [ cur EXCEPT ![t] = root_page_id ]
    /\ ops' = ops + 1
    /\ UNCHANGED managerVars
    /\ UNCHANGED <<treeVars, parents, results, rounds, lastWrite>>

\* a thread calls range_query(start_key, end_key)
StartRangeQuery(t) ==
    /\ pc[t] = "idle"
    /\ ops < MaxOps
    /\ \E s \in Keys, e \in Keys :
          op' = [ op EXCEPT ![t] = [ type |-> "range_query", key |-> s,
                                     value |-> <<0, 0>>, lsn |-> 0, end_key |-> e ] ]
    /\ pc' = [ pc EXCEPT ![t] = "find" ]
    /\ cur' = [ cur EXCEPT ![t] = root_page_id ]
    /\ ops' = ops + 1
    /\ UNCHANGED managerVars
    /\ UNCHANGED <<treeVars, parents, results, rounds, lastWrite>>

\* one iteration of the loop of find_leaf_page_with_parents: get_entry,
\* consolidate_page (which locks the page's delta chain in get_delta_chain),
\* then the match on the node type
Traverse(t) ==
    /\ pc[t] = "find"
    /\ UNCHANGED <<treeVars, ops, managerVars, lastWrite>>
    /\ IF cur[t] \notin DOMAIN table
       THEN Return(t)                        \* get_entry(..)? is None
       ELSE /\ CanLock(cur[t])
            /\ IF poisoned[cur[t]]
               THEN Panic(t)
               ELSE LET page_state == consolidate_page(pages[cur[t]])
                        child == find_child_in_internal_node(page_state, op[t].key)
                    IN  IF page_state.node_type = "Leaf"
                        THEN /\ Goto(t, IF op[t].type = "range_query"
                                        THEN "scan" ELSE "check_smo")
                             /\ UNCHANGED <<op, cur, parents, results, rounds>>
                        ELSE IF child = None
                        THEN Return(t)
                        ELSE /\ cur' = [ cur EXCEPT ![t] = child[1] ]
                             /\ parents' = [ parents EXCEPT ![t] = Append(@, cur[t]) ]
                             /\ UNCHANGED <<pc, op, results, rounds>>

\* insert/delete step 2: if self.is_under_smo(&page_id)
CheckSmo(t) ==
    /\ pc[t] = "check_smo"
    /\ Goto(t, IF is_under_smo(cur[t]) THEN "suspend_op" ELSE "append")
    /\ UNCHANGED <<treeVars, op, cur, parents, results, rounds, ops, managerVars, lastWrite>>

\* the request an insert or a delete leaves in the queue
RequestOf(o) ==
    [ type  |-> IF o.type = "insert" THEN "Insert" ELSE "Delete",
      key   |-> o.key, value |-> o.value, lsn |-> o.lsn ]

SplitRequest == [ type |-> "Split", key |-> 0, value |-> <<0, 0>>, lsn |-> 0 ]

\* suspend_request: lock suspended_requests, push the request on the page's
\* queue, wait on the condition variable (which releases the lock)
Enqueue(page_id, request) ==
    IF page_id \in DOMAIN suspended_requests
    THEN [ suspended_requests EXCEPT ![page_id] = Append(@, request) ]
    ELSE [ id \in DOMAIN suspended_requests \cup {page_id} |->
             IF id = page_id THEN <<request>> ELSE suspended_requests[id] ]

\* suspend_request called by insert or delete
SuspendOp(t) ==
    /\ pc[t] = "suspend_op"
    /\ suspended_requests' = Enqueue(cur[t], RequestOf(op[t]))
    /\ Goto(t, "waiting_op")
    /\ UNCHANGED <<table, pages, chainLock, poisoned, root_page_id, next_page_id,
                   op, cur, parents, results, rounds, ops, managerVars, lastWrite>>

\* suspend_request called by handle_split
SuspendSplit(t) ==
    /\ pc[t] = "suspend_split"
    /\ suspended_requests' = Enqueue(cur[t], SplitRequest)
    /\ Goto(t, "waiting_split")
    /\ UNCHANGED <<table, pages, chainLock, poisoned, root_page_id, next_page_id,
                   op, cur, parents, results, rounds, ops, managerVars, lastWrite>>

\* Condvar::wait returns (std documents spurious wakeups; no loop re-checks a
\* condition): suspend_request returns, and insert/delete return after it
WakeOp(t) ==
    /\ pc[t] = "waiting_op"
    /\ Return(t)
    /\ UNCHANGED <<treeVars, ops, managerVars, lastWrite>>

\* Condvar::wait returns inside handle_split: handle_split returns and insert
\* goes back to the head of its loop (continue)
WakeSplit(t) ==
    /\ pc[t] = "waiting_split"
    /\ LoopHead(t)
    /\ UNCHANGED <<treeVars, ops, managerVars, lastWrite>>

\* the delta an insert or a delete publishes
DeltaOf(o) ==
    IF o.type = "insert" THEN DataDelta(o.lsn, o.key, o.value)
    ELSE DeleteDelta(o.lsn, o.key)

\* insert step 3 / the same block of delete: lock the page's delta chain, make
\* the new delta the head with the old head as its next, unlock
AppendDelta(t) ==
    /\ pc[t] = "append"
    /\ CanLock(cur[t])
    /\ UNCHANGED <<table, chainLock, poisoned, root_page_id, next_page_id,
                   suspended_requests, ops, managerVars>>
    /\ IF poisoned[cur[t]]
       THEN /\ Panic(t)
            /\ UNCHANGED <<pages, lastWrite>>
       ELSE /\ Len(pages[cur[t]].delta_chain) < MaxChain
            /\ pages' = [ pages EXCEPT ![cur[t]] = AddDelta(@, DeltaOf(op[t])) ]
            /\ lastWrite' = [ lastWrite EXCEPT ![op[t].key] =
                                [ inserted |-> @.inserted \/ op[t].type = "insert",
                                  deleted  |-> @.deleted \/ op[t].type = "delete",
                                  live     |-> op[t].type = "insert",
                                  value    |-> op[t].value,
                                  calls    |-> @.calls,
                                  asked    |-> @.asked ] ]
            /\ Goto(t, IF op[t].type = "insert" THEN "need_split" ELSE "need_merge")
            /\ UNCHANGED <<op, cur, parents, results, rounds>>

\* insert step 4, need_split: logical_size > self.smo_threshold()
NeedSplit(t) ==
    /\ pc[t] = "need_split"
    /\ CanLock(cur[t])
    /\ UNCHANGED <<treeVars, ops, managerVars, lastWrite>>
    /\ IF poisoned[cur[t]]
       THEN Panic(t)
       ELSE IF over_threshold(pages[cur[t]])
       THEN /\ Goto(t, "can_split")
            /\ UNCHANGED <<op, cur, parents, results, rounds>>
       ELSE Return(t)                                   \* Done! break

\* need_split's second conjunct: self.can_split(page)
CanSplit(t) ==
    /\ pc[t] = "can_split"
    /\ CanLock(cur[t])
    /\ UNCHANGED <<treeVars, ops, managerVars, lastWrite>>
    /\ IF poisoned[cur[t]]
       THEN Panic(t)
       ELSE IF can_split(pages[cur[t]])
       THEN /\ Goto(t, "hs_check")
            /\ UNCHANGED <<op, cur, parents, results, rounds>>
       ELSE Return(t)

\* handle_split: if self.is_under_smo(&page_id)
HsCheck(t) ==
    /\ pc[t] = "hs_check"
    /\ Goto(t, IF is_under_smo(cur[t]) THEN "suspend_split" ELSE "hs_set")
    /\ UNCHANGED <<treeVars, op, cur, parents, results, rounds, ops, managerVars, lastWrite>>

\* handle_split: self.set_under_smo(page_id)
HsSet(t) ==
    /\ pc[t] = "hs_set"
    /\ table' = WithUnderSmo(cur[t], TRUE)
    /\ Goto(t, "hs_lock")
    /\ UNCHANGED <<pages, chainLock, poisoned, root_page_id, next_page_id,
                   suspended_requests, op, cur, parents, results, rounds, ops, managerVars,
                   lastWrite>>

\* handle_split: let delta_chain_lock = page.delta_chain.lock().unwrap();
\* the guard lives to the end of handle_split
HsLock(t) ==
    /\ pc[t] = "hs_lock"
    /\ CanLock(cur[t])
    /\ UNCHANGED <<table, pages, poisoned, root_page_id, next_page_id,
                   suspended_requests, ops, managerVars, lastWrite>>
    /\ IF poisoned[cur[t]]
       THEN /\ Panic(t)
            /\ UNCHANGED chainLock
       ELSE /\ chainLock' = [ chainLock EXCEPT ![cur[t]] = t ]
            /\ Goto(t, "hs_alloc")
            /\ UNCHANGED <<op, cur, parents, results, rounds>>

\* an allocator that hands out its counter without advancing it
HsAllocSameId(t) ==
    /\ pc[t] = "hs_alloc"
    /\ Goto(t, "hs_choose")
    /\ UNCHANGED <<table, pages, chainLock, poisoned, root_page_id, next_page_id,
                   suspended_requests, op, cur, parents, results, rounds, ops,
                   managerVars, lastWrite>>

\* handle_split: let new_page_id = self.allocate_page_id()
HsAlloc(t) ==
    /\ pc[t] = "hs_alloc"
    /\ next_page_id' = next_page_id + 1
    /\ Goto(t, "hs_choose")
    /\ UNCHANGED <<table, pages, chainLock, poisoned, root_page_id,
                   suspended_requests, op, cur, parents, results, rounds, ops, managerVars,
                   lastWrite>>

\* handle_split: self.choose_split_key(&page) calls consolidate_page, whose
\* get_delta_chain locks page.delta_chain again while this thread holds
\* delta_chain_lock.  std::sync::Mutex leaves a second lock by the holder
\* unspecified but never lets it return: the thread blocks for ever, or it
\* panics, which drops the guard and poisons the mutex.  Nothing after
\* choose_split_key in handle_split is ever run.
HsChoose(t) ==
    /\ pc[t] = "hs_choose"
    /\ chainLock[cur[t]] = t
    /\ UNCHANGED <<table, pages, root_page_id, next_page_id, suspended_requests,
                   op, cur, parents, results, rounds, ops, managerVars, lastWrite>>
    /\ \/ /\ Goto(t, "deadlocked")
          /\ UNCHANGED <<chainLock, poisoned>>
       \/ /\ Goto(t, "panicked")
          /\ chainLock' = [ chainLock EXCEPT ![cur[t]] = NoThread ]
          /\ poisoned' = [ poisoned EXCEPT ![cur[t]] = TRUE ]

\* delete: if self.need_merge(&page)
NeedMerge(t) ==
    /\ pc[t] = "need_merge"
    /\ CanLock(cur[t])
    /\ UNCHANGED <<treeVars, ops, managerVars, lastWrite>>
    /\ IF poisoned[cur[t]]
       THEN Panic(t)
       ELSE IF need_merge(pages[cur[t]])
       THEN /\ Goto(t, "hm_set")
            /\ UNCHANGED <<op, cur, parents, results, rounds>>
       ELSE Return(t)                                   \* Deletion successful

\* handle_merge: self.set_under_smo(page_id), with no test of the flag
HmSet(t) ==
    /\ pc[t] = "hm_set"
    /\ table' = WithUnderSmo(cur[t], TRUE)
    /\ Goto(t, "hm_lock")
    /\ UNCHANGED <<pages, chainLock, poisoned, root_page_id, next_page_id,
                   suspended_requests, op, cur, parents, results, rounds, ops, managerVars,
                   lastWrite>>

\* handle_merge: let delta_chain_lock = page.delta_chain.lock().unwrap()
HmLock(t) ==
    /\ pc[t] = "hm_lock"
    /\ CanLock(cur[t])
    /\ UNCHANGED <<table, pages, poisoned, root_page_id, next_page_id,
                   suspended_requests, ops, managerVars, lastWrite>>
    /\ IF poisoned[cur[t]]
       THEN /\ Panic(t)
            /\ UNCHANGED chainLock
       ELSE /\ chainLock' = [ chainLock EXCEPT ![cur[t]] = t ]
            /\ Goto(t, "hm_find_left")
            /\ UNCHANGED <<op, cur, parents, results, rounds>>

\* a skip that returns without clearing under_smo
HmSkipKeepsFlag(t) ==
    /\ pc[t] = "hm_find_left"
    /\ find_left_sibling(pages[cur[t]]) = None
    /\ Goto(t, "hm_return")
    /\ UNCHANGED <<table, pages, chainLock, poisoned, root_page_id, next_page_id,
                   suspended_requests, op, cur, parents, results, rounds, ops, managerVars,
                   lastWrite>>

\* handle_merge: find_left_sibling is None, so self.clear_under_smo(page_id)
HmSkip(t) ==
    /\ pc[t] = "hm_find_left"
    /\ find_left_sibling(pages[cur[t]]) = None
    /\ table' = WithUnderSmo(cur[t], FALSE)
    /\ Goto(t, "hm_return")
    /\ UNCHANGED <<pages, chainLock, poisoned, root_page_id, next_page_id,
                   suspended_requests, op, cur, parents, results, rounds, ops, managerVars,
                   lastWrite>>

\* handle_merge: return, which drops delta_chain_lock; delete then runs
\* `continue` and is back at the head of its loop
HmReturn(t) ==
    /\ pc[t] = "hm_return"
    /\ chainLock' = [ chainLock EXCEPT ![cur[t]] = NoThread ]
    /\ LoopHead(t)
    /\ UNCHANGED <<table, pages, poisoned, root_page_id, next_page_id,
                   suspended_requests, ops, managerVars, lastWrite>>

\* a scan that stores the consolidated records as the page's base content
\* and empties its delta chain
ScanConsolidating(t) ==
    /\ pc[t] = "scan"
    /\ CanLock(cur[t])
    /\ UNCHANGED <<table, chainLock, poisoned, root_page_id, next_page_id,
                   suspended_requests, ops, managerVars, lastWrite>>
    /\ IF poisoned[cur[t]]
       THEN Panic(t) /\ UNCHANGED pages
       ELSE LET scanned == ScanPage(pages[cur[t]], op[t].key, op[t].end_key)
            IN  /\ pages' = [ pages EXCEPT ![cur[t]].base_data =
                                              consolidate_page(pages[cur[t]]).records,
                                          ![cur[t]].delta_chain = <<>> ]
                /\ IF scanned.next # None
                   THEN IF scanned.next[1] \in DOMAIN table
                        THEN /\ results' = [ results EXCEPT ![t] = @ \o scanned.found ]
                             /\ cur' = [ cur EXCEPT ![t] = scanned.next[1] ]
                             /\ UNCHANGED <<pc, op, parents, rounds>>
                        ELSE Panic(t)
                   ELSE /\ results' = [ results EXCEPT ![t] = @ \o scanned.found ]
                        /\ Goto(t, "rq_done")
                        /\ UNCHANGED <<op, cur, parents, rounds>>

\* one iteration of range_query's loop: consolidate the page, keep the records
\* in range, then move to the right sibling (get_entry(..).unwrap()) or stop
Scan(t) ==
    /\ pc[t] = "scan"
    /\ CanLock(cur[t])
    /\ UNCHANGED <<treeVars, ops, managerVars, lastWrite>>
    /\ IF poisoned[cur[t]]
       THEN Panic(t)
       ELSE LET scanned == ScanPage(pages[cur[t]], op[t].key, op[t].end_key)
            IN  IF scanned.next # None
                THEN IF scanned.next[1] \in DOMAIN table
                     THEN /\ results' = [ results EXCEPT ![t] = @ \o scanned.found ]
                          /\ cur' = [ cur EXCEPT ![t] = scanned.next[1] ]
                          /\ UNCHANGED <<pc, op, parents, rounds>>
                     ELSE Panic(t)
                ELSE /\ results' = [ results EXCEPT ![t] = @ \o scanned.found ]
                     /\ Goto(t, "rq_done")
                     /\ UNCHANGED <<op, cur, parents, rounds>>

\* range_query returns `results`
RangeQueryReturn(t) ==
    /\ pc[t] = "rq_done"
    /\ Return(t)
    /\ UNCHANGED <<treeVars, ops, managerVars, lastWrite>>

Step(t) ==
    \/ StartInsert(t)
    \/ StartDelete(t)
    \/ StartRangeQuery(t)
    \/ Traverse(t)
    \/ CheckSmo(t)
    \/ SuspendOp(t)
    \/ SuspendSplit(t)
    \/ WakeOp(t)
    \/ WakeSplit(t)
    \/ AppendDelta(t)
    \/ NeedSplit(t)
    \/ CanSplit(t)
    \/ HsCheck(t)
    \/ HsSet(t)
    \/ HsLock(t)
    \/ HsAlloc(t)
    \/ HsChoose(t)
    \/ NeedMerge(t)
    \/ HmSet(t)
    \/ HmLock(t)
    \/ HmSkip(t)
    \/ HmReturn(t)
    \/ Scan(t)
    \/ RangeQueryReturn(t)

Next == \E t \in Threads : Step(t)

Spec == Init /\ [][Next]_vars

-----------------------------------------------------------------------------
(* consolidate_page and range_query on chains that hold SplitDelta nodes.   *)
(* No run from BweTree::new appends a SplitDelta (handle_split stops in     *)
(* choose_split_key), so the two functions are applied here to pages drawn  *)
(* from a bounded set: page 0 as successive splits at decreasing keys leave *)
(* it (the writes of tree.rs 386-425), with the page each SplitDelta names  *)
(* registered as an empty leaf.                                             *)

SplitDelta(lsn, split_key, right_page_id) ==
    [ type |-> "SplitDelta", lsn |-> lsn, split_key |-> split_key,
      right_page_id |-> right_page_id ]

\* the keys a split can choose: the keys strictly inside the root's range
SplitKeys == (KeyMIN + 1)..(KeyMAX - 1)

\* the keys of a set, largest first: the order in which successive splits of
\* one page choose them
RECURSIVE Descending(_)
Descending(ks) ==
    IF ks = {} THEN <<>>
    ELSE LET m == CHOOSE k \in ks : \A j \in ks : j <= k
         IN  <<m>> \o Descending(ks \ {m})

\* page 0 after the splits at split_keys (oldest first), and the pages the
\* splits built: Page::new(new_page_id, node_type, split_key, old high_key)
\* with the old right sibling; on the original update_high_key(split_key),
\* right_sibling = Some(new_page_id) and the SplitDelta in front of the chain
SplitPages(split_keys) ==
    LET n == Len(split_keys)
    IN  [ id \in 0..n |->
            IF id = 0
            THEN [ NewPage(0, "Leaf", KeyMIN,
                           IF n = 0 THEN KeyMAX ELSE split_keys[n])
                     EXCEPT !.right_sibling = IF n = 0 THEN None ELSE Some(n),
                            !.delta_chain =
                                [ i \in 1..n |->
                                    SplitDelta(0, split_keys[n + 1 - i], n + 1 - i) ] ]
            ELSE [ NewPage(id, "Leaf", split_keys[id],
                           IF id = 1 THEN KeyMAX ELSE split_keys[id - 1])
                     EXCEPT !.right_sibling = IF id = 1 THEN None ELSE Some(id - 1) ] ]

ViewInit ==
    /\ \E ks \in SUBSET SplitKeys :
          /\ pages = SplitPages(Descending(ks))
          /\ table = [ id \in 0..Cardinality(ks) |-> NewEntry ]
          /\ chainLock = [ id \in 0..Cardinality(ks) |-> NoThread ]
          /\ poisoned = [ id \in 0..Cardinality(ks) |-> FALSE ]
          /\ next_page_id = Cardinality(ks) + 1
    /\ root_page_id = 0
    /\ suspended_requests = [ id \in {0} |-> <<>> ]
    /\ pc = [ t \in Threads |-> "idle" ]
    /\ op = [ t \in Threads |-> NoOp ]
    /\ cur = [ t \in Threads |-> 0 ]
    /\ parents = [ t \in Threads |-> <<>> ]
    /\ results = [ t \in Threads |-> <<>> ]
    /\ rounds = [ t \in Threads |-> 0 ]
    /\ ops = 0
    /\ ManagersNew
    /\ lastWrite = [ k \in Keys |-> NeverWritten ]

\* the steps of range_query: each reads a page through consolidate_page
ViewNext ==
    \E t \in Threads :
        \/ StartRangeQuery(t)
        \/ Traverse(t)
        \/ Scan(t)
        \/ RangeQueryReturn(t)

ViewSpec == ViewInit /\ [][ViewNext]_vars

-----------------------------------------------------------------------------
(* The mapping-table call handle_merge makes for the page it has merged     *)
(* into its left sibling.  No run from BweTree::new gets there               *)
(* (find_left_sibling returns None), so the call is applied to the pages of *)
(* ViewInit that have a left sibling, while range queries read the tree.    *)

\* MappingTable::set_pending_alloc: nothing for a missing entry
set_pending_alloc(page_id) ==
    IF page_id \in DOMAIN table
    THEN [ table EXCEPT ![page_id].pending_alloc = TRUE ]
    ELSE table

\* handle_merge, "Set PendingDealloc flag for the merged page":
\* self.mapping_table.set_pending_alloc(page_id)
MarkMerged(page_id) ==
    /\ \E left \in DOMAIN pages : pages[left].right_sibling = Some(page_id)
    /\ table' = set_pending_alloc(page_id)
    /\ UNCHANGED <<pages, chainLock, poisoned, root_page_id, next_page_id,
                   suspended_requests, pc, op, cur, parents, results, rounds,
                   ops, managerVars, lastWrite>>

MergeMarkNext ==
    \/ \E page_id \in DOMAIN table : MarkMerged(page_id)
    \/ ViewNext

MergeMarkSpec == ViewInit /\ [][MergeMarkNext]_vars

-----------------------------------------------------------------------------
(* insert and delete on a mapping table that cannot resolve the page the    *)
(* traversal asks for.  No run from BweTree::new loses an entry, so the     *)
(* None arm of the two calls is exercised on a table drawn without the      *)
(* entry of the root.                                                       *)

MissingPageInit ==
    /\ table = [ id \in {} |-> NewEntry ]
    /\ pages = [ id \in {} |-> NewPage(id, "Leaf", KeyMIN, KeyMAX) ]
    /\ chainLock = [ id \in {} |-> NoThread ]
    /\ poisoned = [ id \in {} |-> FALSE ]
    /\ root_page_id = 0
    /\ next_page_id = 1
    /\ suspended_requests = [ id \in {} |-> <<>> ]
    /\ pc = [ t \in Threads |-> "idle" ]
    /\ op = [ t \in Threads |-> NoOp ]
    /\ cur = [ t \in Threads |-> 0 ]
    /\ parents = [ t \in Threads |-> <<>> ]
    /\ results = [ t \in Threads |-> <<>> ]
    /\ rounds = [ t \in Threads |-> 0 ]
    /\ ops = 0
    /\ ManagersNew
    /\ lastWrite = [ k \in Keys |-> NeverWritten ]

\* the calls and their traversal
MissingPageNext ==
    \E t \in Threads :
        \/ StartInsert(t)
        \/ StartDelete(t)
        \/ Traverse(t)

MissingPageSpec == MissingPageInit /\ [][MissingPageNext]_vars

-----------------------------------------------------------------------------
(* insert called with LSNs of the caller's choice.  The LSN is an argument  *)
(* of insert; nothing orders the LSNs of successive calls.  The calls here  *)
(* insert values small enough that no leaf reaches the split threshold.     *)

WriteLSNs == {1, 2}

SmallValues == { v \in Values : ValueLen(v) <= merge_threshold }

\* a thread calls insert(key, value, lsn)
StartInsertLsn(t) ==
    /\ pc[t] = "idle"
    /\ ops < MaxOps
    /\ \E k \in Keys, v \in SmallValues, l \in WriteLSNs :
          /\ op' = [ op EXCEPT ![t] = [ type |-> "insert", key |-> k, value |-> v,
                                        lsn |-> l, end_key |-> k ] ]
          /\ lastWrite' = [ lastWrite EXCEPT ![k].calls = @ + 1, ![k].asked = v ]
    /\ pc' = [ pc EXCEPT ![t] = "find" ]
    /\ cur' = [ cur EXCEPT ![t] = root_page_id ]
    /\ ops' = ops + 1
    /\ UNCHANGED managerVars
    /\ UNCHANGED <<treeVars, parents, results, rounds>>

LsnNext ==
    \E t \in Threads :
        \/ StartInsertLsn(t)
        \/ Traverse(t)
        \/ CheckSmo(t)
        \/ AppendDelta(t)
        \/ NeedSplit(t)

LsnSpec == Init /\ [][LsnNext]_vars

-----------------------------------------------------------------------------
(* range_query run alone, with no other thread between its steps: the      *)
(* value it returns in a state where no thread holds a delta-chain lock.    *)

\* BweTree::find_leaf_page: the walk from a page down to a leaf
RECURSIVE FindLeafFrom(_, _, _)
FindLeafFrom(page_id, key, fuel) ==
    IF fuel = 0 \/ page_id \notin DOMAIN table THEN None
    ELSE LET page_state == consolidate_page(pages[page_id])
             child == find_child_in_internal_node(page_state, key)
         IN  IF page_state.node_type = "Leaf" THEN Some(page_id)
             ELSE IF child = None THEN None
             ELSE FindLeafFrom(child[1], key, fuel - 1)

\* the loop of range_query from a page on
RECURSIVE ScanFrom(_, _, _, _)
ScanFrom(page_id, start_key, end_key, fuel) ==
    IF fuel = 0 \/ page_id \notin DOMAIN table THEN <<>>
    ELSE LET scanned == ScanPage(pages[page_id], start_key, end_key)
         IN  scanned.found \o
             ( IF scanned.next = None THEN <<>>
               ELSE ScanFrom(scanned.next[1], start_key, end_key, fuel - 1) )

\* BweTree::range_query
range_query(start_key, end_key) ==
    LET leaf == FindLeafFrom(root_page_id, start_key, Cardinality(DOMAIN table))
    IN  IF leaf = None THEN <<>>
        ELSE ScanFrom(leaf[1], start_key, end_key, Cardinality(DOMAIN table))

-----------------------------------------------------------------------------
(* Vocabulary of the properties.                                           *)

\* every call has returned
Quiescent == \A t \in Threads : pc[t] = "idle"

\* the elements of a sequence
Range(s) == { s[i] : i \in 1..Len(s) }

\* the keys of a result, in the order of the result
KeysOf(s) == [ i \in 1..Len(s) |-> s[i][1] ]

\* the keys whose newest published write is an insert
LiveKeys(start_key, end_key) ==
    { k \in Keys : lastWrite[k].live /\ start_key <= k /\ k <= end_key }

\* a set of keys in ascending order
RECURSIVE Ascending(_)
Ascending(ks) ==
    IF ks = {} THEN <<>>
    ELSE LET m == CHOOSE k \in ks : \A j \in ks : k <= j
         IN  <<m>> \o Ascending(ks \ {m})

\* the threads that have set under_smo on a page and are in the body of
\* handle_split or handle_merge, before the flag is cleared
SmoOwners(page_id) ==
    { t \in Threads :
        /\ cur[t] = page_id
        /\ pc[t] \in {"hs_lock", "hs_alloc", "hs_choose", "deadlocked",
                      "hm_lock", "hm_find_left"} }

\* the threads still inside handle_split or handle_merge on a page
InSmo(page_id) ==
    SmoOwners(page_id) \cup { t \in Threads : cur[t] = page_id /\ pc[t] = "hm_return" }

\* the threads whose handle_split on a page has taken its last step: the
\* call can take no further step, so the state of the tree is the one the
\* split leaves behind
SplitEnded(page_id) ==
    { t \in Threads : cur[t] = page_id /\ pc[t] = "deadlocked" }

\* the records a leaf holds by its base data and its DataDelta/DeleteDelta
\* nodes alone, whatever SMO deltas sit in its chain
DataRecords(page) ==
    consolidate_page(
        [ page EXCEPT !.delta_chain =
            SelectSeq(@, LAMBDA d : d.type \in {"DataDelta", "DeleteDelta"}) ]).records

-----------------------------------------------------------------------------
(* The properties.                                                         *)

\* C1: once every insert and delete call has returned, range_query over
\* [start, end] returns exactly the pairs (k, v) with k in the range, the newest
\* write of k an insert, and v the value of that insert.
C1_RangeQueryLatest ==
    Quiescent =>
        \A s \in Keys, e \in Keys :
            Range(range_query(s, e)) =
                { <<k, lastWrite[k].value>> : k \in LiveKeys(s, e) }

\* C2: when a key was inserted and then deleted (the delete is its newest
\* write), range_query(key, key) is empty, and a wider range_query has no pair
\* for the key and returns the other live keys of the range in ascending order.
C2_InsertThenDelete ==
    Quiescent =>
        \A k \in Keys :
            (lastWrite[k].inserted /\ lastWrite[k].deleted /\ ~lastWrite[k].live) =>
                /\ range_query(k, k) = <<>>
                /\ \A s \in Keys, e \in Keys :
                      (s <= k /\ k <= e) =>
                          KeysOf(range_query(s, e)) = Ascending(LiveKeys(s, e))

\* C3: every call to delete returns.  The only way back to the head of delete's
\* loop is the `continue` after handle_merge; a call that is back there with its
\* leaf still below the merge threshold repeats the iteration it has just run,
\* so a call that returns is never in that state.
C3_DeleteReturns ==
    \A t \in Threads :
        ~ ( /\ op[t].type = "delete"
            /\ pc[t] = "find"
            /\ rounds[t] > 0
            /\ cur[t] \in DOMAIN pages
            /\ need_merge(pages[cur[t]]) )

\* C4: every call to insert returns, also when it runs a split: no insert call
\* ends blocked for ever or in a panic.
C4_InsertReturns ==
    \A t \in Threads :
        op[t].type = "insert" => pc[t] \notin {"deadlocked", "panicked"}

\* C5: after inserts only of a key, every range_query whose range holds the key
\* returns exactly one pair for it, with the value of the last insert.
C5_OnePairPerKey ==
    Quiescent =>
        \A k \in Keys :
            (lastWrite[k].inserted /\ ~lastWrite[k].deleted) =>
                \A s \in Keys, e \in Keys :
                    (s <= k /\ k <= e) =>
                        LET r == range_query(s, e)
                            at == { i \in 1..Len(r) : r[i][1] = k }
                        IN  /\ Cardinality(at) = 1
                            /\ \A i \in at : r[i][2] = lastWrite[k].value

\* C6: a request queued while its page was under SMO is not lost: once the SMO
\* is over (no thread is inside handle_split or handle_merge on the page and
\* under_smo is clear) no insert or delete request is left in the page's queue.
C6_NoLostRequest ==
    \A p \in DOMAIN suspended_requests :
        (InSmo(p) = {} /\ ~is_under_smo(p)) =>
            \A i \in 1..Len(suspended_requests[p]) :
                suspended_requests[p][i].type = "Split"

\* C7: at most one thread at a time owns the SMO on a page.
C7_SingleSmoOwner ==
    \A p \in DOMAIN table : Cardinality(SmoOwners(p)) <= 1

\* C8: no step appends a DataDelta or a DeleteDelta to the chain of a page whose
\* under_smo flag is set.
C8_NoAppendUnderSmo ==
    [][ \A p \in DOMAIN pages :
           ( /\ Len(pages'[p].delta_chain) > Len(pages[p].delta_chain)
             /\ Head(pages'[p].delta_chain).type \in {"DataDelta", "DeleteDelta"} )
           => ~is_under_smo(p) ]_vars

\* C9: a range_query in progress is never blocked: its next step can be taken
\* without any other thread taking a step first.
C9_ReadsNeverBlock ==
    \A t \in Threads :
        (op[t].type = "range_query" /\ pc[t] \in {"find", "scan"}) =>
            (cur[t] \in DOMAIN table => CanLock(cur[t]))

\* C10: every key of a page's consolidated view lies in [low_key, high_key), and
\* a page with a right sibling has that sibling's low_key as its high_key.
C10_KeyBounds ==
    \A p \in DOMAIN pages :
        LET st == consolidate_page(pages[p])
        IN  /\ \A i \in 1..Len(st.records) :
                  st.low_key <= st.records[i][1] /\ st.records[i][1] < st.high_key
            /\ st.right_sibling # None =>
                  /\ st.right_sibling[1] \in DOMAIN pages
                  /\ st.high_key = consolidate_page(pages[st.right_sibling[1]]).low_key

\* C11: once handle_split has taken its last step on a page, a new page is
\* registered as its right sibling, the original's high_key is the new page's
\* low_key (the split key), every record of each view lies in its page's range,
\* no key is in both views, and the two views together hold the records the
\* page held before the split.
C11_SplitPartition ==
    \A p \in DOMAIN pages :
        SplitEnded(p) # {} =>
            \E n \in DOMAIN pages \ {p} :
                LET orig == consolidate_page(pages[p])
                    new == consolidate_page(pages[n])
                IN  /\ orig.right_sibling = Some(n)
                    /\ orig.high_key = new.low_key
                    /\ \A r \in Range(orig.records) :
                          orig.low_key <= r[1] /\ r[1] < orig.high_key
                    /\ \A r \in Range(new.records) :
                          new.low_key <= r[1] /\ r[1] < new.high_key
                    /\ Range(KeysOf(orig.records)) \cap Range(KeysOf(new.records)) = {}
                    /\ Range(orig.records) \cup Range(new.records)
                          = Range(DataRecords(pages[p]))

\* C12: once the split of a leaf that was the root has taken its last step, the
\* root is an Internal page with exactly two index entries, and the walk from
\* the root reaches the original page for every key below the split key and the
\* new page for every key at or above it.
C12_RootAfterSplit ==
    \A t \in Threads :
        (pc[t] = "deadlocked" /\ parents[t] = <<>>) =>
            LET root == consolidate_page(pages[root_page_id])
                orig == consolidate_page(pages[cur[t]])
            IN  /\ root.node_type = "Internal"
                /\ Len(root.index_entries) = 2
                /\ orig.right_sibling # None
                /\ \A k \in Keys :
                      FindLeafFrom(root_page_id, k, Cardinality(DOMAIN table)) =
                          IF k < orig.high_key THEN Some(cur[t])
                          ELSE orig.right_sibling

\* C13: a range scan that runs while a page it visits is split goes on to the
\* end of its range: the scan does not end in a panic, and it is never left at
\* a page whose split has taken its last step without being able to read it.
C13_ScanSurvivesSplit ==
    \A t \in Threads :
        op[t].type = "range_query" =>
            /\ pc[t] # "panicked"
            /\ (pc[t] = "scan" /\ SplitEnded(cur[t]) # {}) =>
                  (CanLock(cur[t]) /\ ~poisoned[cur[t]])

\* C14: once the split of a page has taken its last step, range_query over a
\* range that holds the split key can be evaluated (the chain of the page is
\* neither locked nor poisoned) and returns what it returned before the split:
\* the records of the page in the range.
C14_QueryAcrossSplit ==
    \A p \in DOMAIN pages :
        SplitEnded(p) # {} =>
            /\ chainLock[p] = NoThread
            /\ ~poisoned[p]
            /\ LET split_key == consolidate_page(pages[p]).high_key
               IN  \A s \in Keys, e \in Keys :
                      (s <= split_key /\ split_key <= e) =>
                          range_query(s, e) =
                              CollectInRange(DataRecords(pages[p]), s, e)

C16_PointQueryFindsInsert ==
    ( /\ Quiescent
      /\ \A k \in Keys : ~lastWrite[k].deleted /\ lastWrite[k].calls <= 1 ) =>
        \A k \in Keys :
            lastWrite[k].calls = 1 =>
                LET r == range_query(k, k)
                IN  /\ r # <<>>
                    /\ r[1] = <<k, lastWrite[k].asked>>

\* every key has been inserted once, nothing deleted, every call has returned
C16_Witness ==
    /\ Quiescent
    /\ \A k \in Keys :
          ~lastWrite[k].deleted /\ lastWrite[k].calls = 1 /\ lastWrite[k].inserted

\* C17: every step that changes the delta chain of a page installs one new
\* node in front of the chain as it was: the rest of the new chain is the old
\* chain, node for node.
C17_AppendLinksHead ==
    [][ \A p \in DOMAIN pages :
           pages'[p].delta_chain # pages[p].delta_chain =>
               /\ Len(pages'[p].delta_chain) = Len(pages[p].delta_chain) + 1
               /\ Tail(pages'[p].delta_chain) = pages[p].delta_chain ]_vars

\* a writer has appended to a chain that already held a node while the other
\* thread is about to append to the same page
C17_Witness ==
    \E t \in Threads, u \in Threads :
        /\ t # u
        /\ pc[t] \in {"need_split", "need_merge"}
        /\ pc[u] = "append"
        /\ cur[u] = cur[t]
        /\ Len(pages[cur[t]].delta_chain) >= 2

C19_QueueReplayed ==
    [][ \A t \in Threads :
           (pc[t] = "hm_return" /\ pc'[t] # "hm_return") =>
               suspended_requests'[cur[t]] = <<>> ]_vars

C21_FreshTree ==
    ops = 0 =>
        /\ root_page_id = 0
        /\ DOMAIN table = {0}
        /\ table[0] = [ pending_alloc |-> FALSE, pending_dealloc |-> FALSE,
                        under_smo |-> FALSE ]
        /\ LET root == consolidate_page(pages[0])
           IN  /\ pages[0].page_id = 0
               /\ root.node_type = "Leaf"
               /\ root.low_key = KeyMIN
               /\ root.high_key = KeyMAX
               /\ root.records = <<>>
               /\ root.right_sibling = None
        /\ \A s \in Keys, e \in Keys : range_query(s, e) = <<>>

\* the tree as BweTree::new leaves it, with a thread about to make a call
C21_Witness ==
    /\ ops = 0
    /\ Quiescent
    /\ next_page_id = 1

\* C22: the view of a leaf resolves each key by the newest DataDelta or
\* DeleteDelta of the key in the chain: when that node is a DataDelta the view
\* holds the key, first with the value of that node, and when it is a
\* DeleteDelta the view holds no record of the key.
C22_NewestDeltaWins ==
    \A p \in DOMAIN pages :
        \A k \in Keys :
            LET chain == pages[p].delta_chain
                at == { i \in 1..Len(chain) :
                          /\ chain[i].type \in {"DataDelta", "DeleteDelta"}
                          /\ chain[i].key = k }
                newest == chain[CHOOSE i \in at : \A j \in at : i <= j]
                recs == SelectSeq(consolidate_page(pages[p]).records,
                                  LAMBDA r : r[1] = k)
            IN  at # {} =>
                    IF newest.type = "DataDelta"
                    THEN recs # <<>> /\ recs[1] = <<k, newest.value>>
                    ELSE recs = <<>>

\* C23: a split that has set under_smo on a page clears it again: no split
\* owner is left, unable to take another step, with the flag of its page set.
C23_SplitClearsUnderSmo ==
    \A t \in Threads :
        pc[t] = "deadlocked" => ~is_under_smo(cur[t])

\* C24: a root-to-leaf traversal for a key ends at the leaf whose range
\* [low_key, high_key) holds the key, whatever splits came before it.
C24_TraversalFindsOwner ==
    \A t \in Threads :
        (pc[t] \in {"check_smo", "scan"} /\ cur[t] \in DOMAIN pages) =>
            LET leaf == consolidate_page(pages[cur[t]])
            IN  /\ leaf.node_type = "Leaf"
                /\ leaf.low_key <= op[t].key
                /\ op[t].key < leaf.high_key

C26_SplitBuildsPage ==
    \A t \in Threads :
        pc[t] = "deadlocked" =>
            \E n \in DOMAIN pages \ {cur[t]} :
                LET orig == consolidate_page(pages[cur[t]])
                IN  /\ n \in DOMAIN table
                    /\ orig.right_sibling = Some(n)
                    /\ pages[n].low_key = orig.high_key
                    /\ pages[n].high_key = pages[cur[t]].high_key
                    /\ pages[n].node_type = pages[cur[t]].node_type
                    /\ pages[n].right_sibling = pages[cur[t]].right_sibling

\* C27: a request is put in the queue of a page only while the page is under
\* SMO: no step appends to suspended_requests[p] in a state where under_smo of
\* p is clear.
C27_EnqueueUnderSmo ==
    [][ \A p \in DOMAIN suspended_requests :
           Len(suspended_requests'[p]) > Len(suspended_requests[p]) =>
               is_under_smo(p) ]_vars

\* C28: the delta chain of a page stays below a fixed length.  The code names
\* no threshold; the property is checked for the longest chain the model lets
\* a page grow, MaxChain.
C28_ChainBounded ==
    \A p \in DOMAIN pages : Len(pages[p].delta_chain) < MaxChain

C31_PendingAllocLifecycle ==
    /\ \A t \in Threads :
          pc[t] = "deadlocked" =>
              \E n \in DOMAIN table \ {cur[t]} :
                  /\ consolidate_page(pages[cur[t]]).right_sibling = Some(n)
                  /\ ~table[n].pending_alloc
    /\ \A p \in DOMAIN pages :
          \A i \in 1..Len(pages[p].delta_chain) :
              pages[p].delta_chain[i].type = "SplitDelta" =>
                  pages[p].delta_chain[i].right_page_id \in DOMAIN table
    /\ \A n \in DOMAIN table :
          table[n].pending_alloc =>
              \E t \in Threads : pc[t] \in {"hs_alloc", "hs_choose"}

C33_GreatestLsnWins ==
    \A p \in DOMAIN pages :
        \A k \in Keys :
            LET chain == pages[p].delta_chain
                writes == { i \in 1..Len(chain) :
                              chain[i].type = "DataDelta" /\ chain[i].key = k }
                recs == SelectSeq(consolidate_page(pages[p]).records,
                                  LAMBDA r : r[1] = k)
            IN  \A m \in writes :
                    ( /\ Cardinality(writes) >= 2
                      /\ \A j \in writes \ {m} : chain[j].lsn < chain[m].lsn ) =>
                        /\ recs # <<>>
                        /\ recs[1] = <<k, chain[m].value>>

\* the steps that begin by locking the delta chain of the page a thread is at
LockingSteps ==
    {"find", "append", "need_split", "can_split", "hs_lock", "hs_choose",
     "need_merge", "hm_lock", "scan"}

\* C34: no thread is about to lock a delta-chain mutex that it holds.
C34_NoRelock ==
    \A t \in Threads :
        (pc[t] \in LockingSteps /\ cur[t] \in DOMAIN chainLock) =>
            chainLock[cur[t]] # t

\* the deltas the call a thread is running has appended so far: one for each
\* iteration of the loop it has been through, and one when it is past the
\* append of the iteration it is in
Appended(t) ==
    rounds[t] +
        ( IF pc[t] \in {"need_split", "can_split", "hs_check", "suspend_split",
                        "waiting_split", "hs_set", "hs_lock", "hs_alloc",
                        "hs_choose", "deadlocked", "need_merge", "hm_set",
                        "hm_lock", "hm_find_left", "hm_return"}
          THEN 1 ELSE 0 )

\* C35: a call to insert or delete has never appended more than one delta, and
\* has appended exactly one when it returns.
C35_OneDeltaPerCall ==
    [][ \A t \in Threads :
           op[t].type \in {"insert", "delete"} =>
               /\ Appended(t) <= 1
               /\ (pc[t] # "idle" /\ pc'[t] = "idle") => Appended(t) = 1 ]_vars

-----------------------------------------------------------------------------
(* Page references.                                                        *)

\* the PageIDs a page refers to: the children of its index entries (base and
\* IndexDelta), its right sibling and the right pages of its SplitDeltas;
\* consolidate_page draws every PageID of its PageState from these
ReferencedBy(page) ==
    LET chain == page.delta_chain
    IN  { page.index_entries[i][2] : i \in DOMAIN page.index_entries }
        \cup UNION { { chain[i].index_entries[j][2] : j \in DOMAIN chain[i].index_entries } :
                     i \in { n \in DOMAIN chain : chain[n].type = "IndexDelta" } }
        \cup { chain[i].right_page_id :
                 i \in { n \in DOMAIN chain : chain[n].type = "SplitDelta" } }
        \cup (IF page.right_sibling = None THEN {} ELSE { page.right_sibling[1] })

AllReferencesRegistered ==
    \A p \in DOMAIN pages : ReferencedBy(pages[p]) \subseteq DOMAIN table

RECURSIVE SiblingWalkEnds(_, _)
SiblingWalkEnds(page_id, visited) ==
    IF page_id \in visited THEN FALSE
    ELSE IF page_id \notin DOMAIN pages THEN TRUE
    ELSE LET next == consolidate_page(pages[page_id]).right_sibling
         IN  IF next = None THEN TRUE
             ELSE SiblingWalkEnds(next[1], visited \cup {page_id})

C38_RangeQueryReadOnly ==
    [][ \A t \in Threads :
          ( /\ (op[t].type = "range_query" \/ op'[t].type = "range_query")
            /\ <<pc[t], cur[t], results[t], op[t]>> # <<pc'[t], cur'[t], results'[t], op'[t]>> )
          => UNCHANGED treeVars ]_vars

\* a range_query has collected records from a page with a delta chain
C38_Witness ==
    \E t \in Threads :
        /\ pc[t] = "rq_done"
        /\ op[t].type = "range_query"
        /\ results[t] # <<>>
        /\ pages[cur[t]].delta_chain # <<>>
-----------------------------------------------------------------------------
(* ConcurrencyManager (src/src/bwetree/concurrency.rs), run alone.  A       *)
(* request is an Arc<PendingRequest>; the n-th request handed to            *)
(* suspend_request is written n.  `notified` logs every call of             *)
(* resume_requests: its page and the requests it called notify_one on, in   *)
(* the order of the calls.                                                  *)

\* the variables of the tree and of its calls, which the components leave alone
bweVars == <<treeVars, pc, op, cur, parents, results, rounds, ops, lastWrite>>

\* requests suspended in one behaviour
MaxSuspended == 3

\* calls of resume_requests in one behaviour
MaxResumes == 3

\* the pages requests are suspended on
CmPages == {0, 1}

RECURSIVE SumLen(_)
SumLen(ss) == IF ss = <<>> THEN 0 ELSE Len(Head(ss)) + SumLen(Tail(ss))

RECURSIVE Flatten(_)
Flatten(ss) == IF ss = <<>> THEN <<>> ELSE Head(ss) \o Flatten(Tail(ss))

RECURSIVE SetToSeq(_)
SetToSeq(S) ==
    IF S = {} THEN <<>>
    ELSE LET x == CHOOSE y \in S : \A z \in S : y <= z
         IN  <<x>> \o SetToSeq(S \ {x})

\* the requests handed to suspend_request so far
Suspended ==
    SumLen([ i \in 1..Len(notified) |-> notified[i].requests ])
    + SumLen([ i \in 1..Cardinality(DOMAIN pending_requests) |->
                 pending_requests[SetToSeq(DOMAIN pending_requests)[i]] ])

\* resume_requests that leaves the queue in the map
resume_requests_keeping(page_id) ==
    /\ Len(notified) < MaxResumes
    /\ notified' = Append(notified,
                          [ page_id  |-> page_id,
                            requests |-> IF page_id \in DOMAIN pending_requests
                                         THEN pending_requests[page_id] ELSE <<>> ])
    /\ UNCHANGED <<pending_requests, file, next_block_number, issued, fetched, bweVars>>

\* ConcurrencyManager::suspend_request: entry(page_id).or_insert_with(Vec::new).push(request)
suspend_request(page_id, request) ==
    /\ Suspended < MaxSuspended
    /\ pending_requests' =
          IF page_id \in DOMAIN pending_requests
          THEN [ pending_requests EXCEPT ![page_id] = Append(@, request) ]
          ELSE [ q \in DOMAIN pending_requests \cup {page_id} |->
                   IF q = page_id THEN <<request>> ELSE pending_requests[q] ]
    /\ UNCHANGED <<notified, file, next_block_number, issued, fetched, bweVars>>

\* ConcurrencyManager::resume_requests: pending.remove(page_id), then
\* notify_one on each request of the removed Vec, front to back
resume_requests(page_id) ==
    /\ Len(notified) < MaxResumes
    /\ pending_requests' = [ q \in DOMAIN pending_requests \ {page_id} |->
                               pending_requests[q] ]
    /\ notified' = Append(notified,
                          [ page_id  |-> page_id,
                            requests |-> IF page_id \in DOMAIN pending_requests
                                         THEN pending_requests[page_id] ELSE <<>> ])
    /\ UNCHANGED <<file, next_block_number, issued, fetched, bweVars>>

CmNext ==
    \/ \E page_id \in CmPages : suspend_request(page_id, Suspended + 1)
    \/ \E page_id \in CmPages : resume_requests(page_id)

CmSpec == Init /\ [][CmNext]_vars

\* C39: a call of resume_requests(page_id) notifies exactly the requests
\* queued on page_id, each once and in the order they were suspended, and
\* removes the whole queue; the queues of other pages are left as they
\* were; a call on a page with no queue notifies nobody; and no request is
\* notified twice over a whole run.
C39_ResumeNotifiesQueue ==
    [][ Len(notified') = Len(notified) + 1 =>
          LET call == notified'[Len(notified')]
              page_id == call.page_id
              everyone == Flatten([ i \in 1..Len(notified') |-> notified'[i].requests ])
          IN  /\ call.requests = IF page_id \in DOMAIN pending_requests
                                 THEN pending_requests[page_id] ELSE <<>>
              /\ \A i, j \in DOMAIN call.requests :
                     i < j => call.requests[i] < call.requests[j]
              /\ \A i, j \in DOMAIN everyone : i # j => everyone[i] # everyone[j]
              /\ page_id \notin DOMAIN pending_requests'
              /\ DOMAIN pending_requests' = DOMAIN pending_requests \ {page_id}
              /\ \A q \in DOMAIN pending_requests' :
                     pending_requests'[q] = pending_requests[q] ]_vars

\* a resume has notified a queue of two requests, a later resume of the same
\* page has found no queue, and a request on another page is still queued
C39_Witness ==
    \E i, j \in DOMAIN notified :
        /\ i < j
        /\ notified[i].page_id = notified[j].page_id
        /\ Len(notified[i].requests) = 2
        /\ notified[j].requests = <<>>
        /\ \E q \in DOMAIN pending_requests :
              q # notified[i].page_id /\ pending_requests[q] # <<>>

-----------------------------------------------------------------------------
(* StorageManager (src/src/bwetree/storage.rs), run alone.  The file is the *)
(* sequence of the fragments written; a fragment is <<n, len>>: the n-th    *)
(* fragment written, of len bytes.  Bytes read are given as the pieces of   *)
(* fragments they come from: <<n, from, to>> is bytes from..to-1 of the     *)
(* n-th fragment.                                                           *)

BLOCK_SIZE == 4096

\* calls of write_page_fragment in one behaviour
MaxFragments == 3

\* lengths of the fragments written
FragmentLens == {6, BLOCK_SIZE, BLOCK_SIZE + BLOCK_SIZE}

StorageLocation(block_number, offset) ==
    [ block_number |-> block_number, offset |-> offset ]

\* the position in the file of the first byte of the n-th fragment
RECURSIVE StartOf(_)
StartOf(n) == IF n <= 1 THEN 0 ELSE StartOf(n - 1) + file[n - 1][2]

\* the length of the file
FileLen == StartOf(Len(file) + 1)

Max2(a, b) == IF a >= b THEN a ELSE b
Min2(a, b) == IF a <= b THEN a ELSE b

\* bytes start..start+count-1 of the file
FileBytes(start, count) ==
    LET piece(n) == <<n, Max2(start, StartOf(n)) - StartOf(n),
                         Min2(start + count, StartOf(n) + file[n][2]) - StartOf(n)>>
        touched  == SelectSeq([ n \in 1..Len(file) |-> n ],
                              LAMBDA n : piece(n)[2] < piece(n)[3])
    IN  [ i \in 1..Len(touched) |-> piece(touched[i]) ]

\* the bytes of a whole fragment
BytesOf(data) == << <<data[1], 0, data[2]>> >>

\* StorageManager::write_page_fragment
write_page_fragment(data) ==
    /\ Len(file) < MaxFragments
    /\ file' = Append(file, data)
    /\ next_block_number' = next_block_number + 1
    /\ issued' = Append(issued, [ data     |-> data,
                                  location |-> StorageLocation(next_block_number, 0) ])
    /\ UNCHANGED <<pending_requests, notified, fetched, bweVars>>

\* StorageManager::read_page_fragment: read_exact of BLOCK_SIZE bytes at
\* block_number * BLOCK_SIZE + offset; its unwrap panics when the file ends
\* before the buffer is full
read_page_fragment(location) ==
    /\ fetched' =
          LET offset == location.block_number * BLOCK_SIZE + location.offset
              filled == offset + BLOCK_SIZE <= FileLen
          IN  << [ location |-> location,
                   panicked |-> ~filled,
                   buffer   |-> IF filled THEN FileBytes(offset, BLOCK_SIZE) ELSE <<>> ] >>
    /\ UNCHANGED <<pending_requests, notified, file, next_block_number, issued,
                   bweVars>>

StorageNext ==
    \/ \E len \in FragmentLens : write_page_fragment(<<Len(file) + 1, len>>)
    \/ \E location \in { issued[i].location : i \in DOMAIN issued } :
          read_page_fragment(location)

StorageSpec == Init /\ [][StorageNext]_vars

\* C40: read_page_fragment of the location that write_page_fragment(d)
\* returned gives back the bytes of d, whatever the lengths of d and of the
\* fragments written before it.
C40_StorageRoundTrip ==
    \A i \in DOMAIN issued :
        (fetched # <<>> /\ fetched[1].location = issued[i].location)
            => /\ ~fetched[1].panicked
               /\ fetched[1].buffer = BytesOf(issued[i].data)
=============================================================================
